---- MODULE Spec2Model ----
(***************************************************************************)
(* Model of the route optimizer for pre-assigned inspections               *)
(* (src/vrp_route_optimizer.py).                                           *)
(*                                                                         *)
(* Units.  Clock values are whole minutes since day_midnight, as in the    *)
(* code (available_start_min, start_min, end_min, current_min).  Travel    *)
(* durations are floats in the code; here they are fixed-point numbers in  *)
(* tenths of a minute (TenthsPerMin).  Distances are floats in km in the   *)
(* code; here they are whole metres.  A datetime is a record               *)
(* [m, s, us]: minutes since day_midnight, second, microsecond.            *)
(***************************************************************************)
EXTENDS Integers, Sequences, FiniteSets, TLC

VARIABLES
    cache,   \* rows of the table mapbox_travel_cache, by key
    rnd,     \* round_to_nearest_5_min: the argument and the value returned
    tsp,     \* solve_tsp / solve_tsp_nearest_neighbor: arguments and values returned
    route,   \* one worker's route under construction (the three route builders)
    batch,   \* optimize_inspector_routes: the loop over the assignments
    metric,  \* get_cached_travel_data: the arguments and the value returned
    insp     \* fetch_inspector_data: the rows read and the available_start_min

vars == <<cache, rnd, tsp, route, batch, metric, insp>>

Idle == [pc |-> "idle"]

(***************************************************************************)
(* Fixed-point scales of the model.                                        *)
(***************************************************************************)
TenthsPerMin == 10
UsPerSec == 1000000
SecPerMin == 60

Max(a, b) == IF a >= b THEN a ELSE b
Min(a, b) == IF a <= b THEN a ELSE b

RECURSIVE SumSeq(_)
SumSeq(s) == IF s = <<>> THEN 0 ELSE Head(s) + SumSeq(Tail(s))

SeqsUpTo(S, n) == UNION {[1..k -> S] : k \in 0..n}

Range(s) == {s[i] : i \in DOMAIN s}

\* The element of a set of one element.  Only({e(x) : x \in {a}}) is e(a) with
\* a evaluated once, however often e uses it.
Only(S) == CHOOSE x \in S : TRUE

(***************************************************************************)
(* round_to_nearest_5_min                                                  *)
(***************************************************************************)
RoundStepMin == 5

\* timedelta(minutes=.., seconds=.., microseconds=..) as microseconds
TimedeltaUs(minutes, seconds, microseconds) ==
    (minutes * SecPerMin + seconds) * UsPerSec + microseconds

\* dt + timedelta of `us` microseconds (0 <= us), with the carries of datetime
DatetimePlusUs(dt, us) ==
    LET total == dt.s * UsPerSec + dt.us + us
    IN  [m  |-> dt.m + total \div (SecPerMin * UsPerSec),
         s  |-> (total % (SecPerMin * UsPerSec)) \div UsPerSec,
         us |-> total % UsPerSec]

\* a variant: the seconds and microseconds are left out of `discard`
round_to_nearest_5_min_minutes_only(dt) ==
    LET discard == TimedeltaUs(dt.m % RoundStepMin, 0, 0)
        moved == IF discard # 0
                 THEN DatetimePlusUs(dt, TimedeltaUs(RoundStepMin, 0, 0) - discard)
                 ELSE dt
    IN  [moved EXCEPT !.s = 0, !.us = 0]

round_to_nearest_5_min(dt) ==
    LET discard == TimedeltaUs(dt.m % RoundStepMin, dt.s, dt.us)
        moved == IF discard # 0
                 THEN DatetimePlusUs(dt, TimedeltaUs(RoundStepMin, 0, 0) - discard)
                 ELSE dt
    IN  [moved EXCEPT !.s = 0, !.us = 0]

\* day_midnight + timedelta(minutes=current_min)
AtMinute(current_min) == [m |-> current_min, s |-> 0, us |-> 0]

MinPerDay == 1440

\* (start_dt - day_midnight).seconds // 60 : timedelta.seconds drops the days
MinutesOfDelta(dt) == ((dt.m * SecPerMin + dt.s) % (MinPerDay * SecPerMin)) \div SecPerMin

\* dt.strftime('%H:%M'), kept as the minute of the day it names
ClockOf(dt) == dt.m % MinPerDay

(***************************************************************************)
(* Coordinates are (lat, lng) in millionths of a degree.  The model works  *)
(* on four places around Copenhagen.                                       *)
(***************************************************************************)
PointH == [lat |-> 55676100, lng |-> 12568300]
PointA == [lat |-> 55685100, lng |-> 12568300]
PointB == [lat |-> 55676100, lng |-> 12604200]
PointC == [lat |-> 55760000, lng |-> 12500000]
Points == {PointH, PointA, PointB, PointC}

\* two places close to H: N is about 11 m north of it; K is less than a
\* metre from it and has the same coordinates to 5 decimals
PointN == [lat |-> 55676200, lng |-> 12568300]
PointK == [lat |-> 55676104, lng |-> 12568300]

\* haversine_km, in metres: the value of the formula (R = 6371.0) on the
\* places of the model, to the nearest 10 m; 0 for a place and itself
haversine_km(lat1, lng1, lat2, lng2) ==
    Only({CASE Cardinality(ends) = 1 -> 0
          [] ends = {PointH, PointA} -> 1000
          [] ends = {PointH, PointB} -> 2250
          [] ends = {PointH, PointC} -> 10260
          [] ends = {PointA, PointB} -> 2460
          [] ends = {PointA, PointC} -> 9360
          [] ends = {PointB, PointC} -> 11390
          [] ends = {PointH, PointN} -> 10
          [] ends = {PointH, PointK} -> 0
          [] ends = {PointA, PointN} -> 990
          [] ends = {PointA, PointK} -> 1000
          [] ends = {PointB, PointN} -> 2250
          [] ends = {PointB, PointK} -> 2250
          [] ends = {PointC, PointN} -> 10250
          [] ends = {PointC, PointK} -> 10260
          [] ends = {PointN, PointK} -> 10 :
          ends \in {{[lat |-> lat1, lng |-> lng1], [lat |-> lat2, lng |-> lng2]}}})

MetresPerKm == 1000
MinPerHour == 60

\* the speed tiers of estimate_travel_minutes, km/h, and their limits, km
UrbanKm == 8
SuburbanKm == 20
UrbanKmh == 25
SuburbanKmh == 35
HighwayKmh == 65
MinTravelMin == 5

\* a variant: no minimum
estimate_travel_minutes_no_minimum(lat1, lng1, lat2, lng2) ==
    IF lat1 = lat2 /\ lng1 = lng2 THEN 0
    ELSE LET km == haversine_km(lat1, lng1, lat2, lng2)
             speed_kmh == IF km <= UrbanKm * MetresPerKm THEN UrbanKmh
                          ELSE IF km <= SuburbanKm * MetresPerKm THEN SuburbanKmh
                          ELSE HighwayKmh
         IN  (km * MinPerHour * TenthsPerMin) \div (speed_kmh * MetresPerKm)

\* estimate_travel_minutes, in tenths of a minute
estimate_travel_minutes(lat1, lng1, lat2, lng2) ==
    IF lat1 = lat2 /\ lng1 = lng2 THEN 0
    ELSE LET km == haversine_km(lat1, lng1, lat2, lng2)
             speed_kmh == IF km <= UrbanKm * MetresPerKm THEN UrbanKmh
                          ELSE IF km <= SuburbanKm * MetresPerKm THEN SuburbanKmh
                          ELSE HighwayKmh
             minutes == (km * MinPerHour * TenthsPerMin) \div (speed_kmh * MetresPerKm)
         IN  Max(MinTravelMin * TenthsPerMin, minutes)

\* round(x, 5) of a coordinate given in millionths of a degree
Round5(x) ==
    LET q == x \div 10
        r == x % 10
    IN  IF r > 5 \/ (r = 5 /\ q % 2 = 1) THEN (q + 1) * 10 ELSE q * 10

\* make_cache_key: "lng,lat->lng,lat" of the rounded values
make_cache_key(from_lat, from_lng, to_lat, to_lng) ==
    <<Round5(from_lng), Round5(from_lat), Round5(to_lng), Round5(to_lat)>>

\* the road factor 1.3, as 13/10
RoadFactorNum == 13
RoadFactorDen == 10
RoadKm(lat1, lng1, lat2, lng2) ==
    (haversine_km(lat1, lng1, lat2, lng2) * RoadFactorNum) \div RoadFactorDen

\* The value of cache at a key is [error, data]: whether the query raises,
\* and the list of rows it returns otherwise; a row is [minutes, distance_km],
\* each the empty list for None and a list of one number otherwise.
CacheMiss == [error |-> FALSE, data |-> <<>>]
CacheRows(key) == IF key \in DOMAIN cache THEN cache[key] ELSE CacheMiss
IsNone(v) == v = <<>>

\* a variant: a query that raises gives no travel at all
get_cached_travel_data_failing_zero(from_lat, from_lng, to_lat, to_lng) ==
    IF from_lat = to_lat /\ from_lng = to_lng THEN <<0, 0>>
    ELSE LET key == make_cache_key(from_lat, from_lng, to_lat, to_lng)
             result == CacheRows(key)
             fallback == <<estimate_travel_minutes(from_lat, from_lng, to_lat, to_lng),
                           RoadKm(from_lat, from_lng, to_lat, to_lng)>>
         IN  IF result.error THEN <<0, 0>>
             ELSE IF Len(result.data) > 0 /\ ~IsNone(result.data[1].minutes)
                  THEN <<Max(MinTravelMin * TenthsPerMin, result.data[1].minutes[1]),
                         IF IsNone(result.data[1].distance_km)
                         THEN RoadKm(from_lat, from_lng, to_lat, to_lng)
                         ELSE result.data[1].distance_km[1]>>
                  ELSE fallback

\* get_cached_travel_data: <<minutes (tenths), metres>>
get_cached_travel_data(from_lat, from_lng, to_lat, to_lng) ==
    IF from_lat = to_lat /\ from_lng = to_lng THEN <<0, 0>>
    ELSE LET key == make_cache_key(from_lat, from_lng, to_lat, to_lng)
             result == CacheRows(key)
             fallback == <<estimate_travel_minutes(from_lat, from_lng, to_lat, to_lng),
                           RoadKm(from_lat, from_lng, to_lat, to_lng)>>
         IN  IF result.error THEN fallback
             ELSE IF Len(result.data) > 0 /\ ~IsNone(result.data[1].minutes)
                  THEN <<Max(MinTravelMin * TenthsPerMin, result.data[1].minutes[1]),
                         IF IsNone(result.data[1].distance_km)
                         THEN RoadKm(from_lat, from_lng, to_lat, to_lng)
                         ELSE result.data[1].distance_km[1]>>
                  ELSE fallback

get_cached_travel_time(from_lat, from_lng, to_lat, to_lng) ==
    get_cached_travel_data(from_lat, from_lng, to_lat, to_lng)[1]

get_cached_distance_km(from_lat, from_lng, to_lat, to_lng) ==
    get_cached_travel_data(from_lat, from_lng, to_lat, to_lng)[2]

\* int(round(x)) of a duration in tenths of a minute: whole minutes, halves to even
IntRound(x) ==
    LET q == x \div TenthsPerMin
        r == x % TenthsPerMin
    IN  IF 2 * r > TenthsPerMin \/ (2 * r = TenthsPerMin /\ q % 2 = 1) THEN q + 1 ELSE q

\* round(km, 1) of a distance in metres: metres, a multiple of 100, halves to even
HundredM == 100
RoundKm1(x) ==
    LET q == x \div HundredM
        r == x % HundredM
    IN  IF 2 * r > HundredM \/ (2 * r = HundredM /\ q % 2 = 1)
        THEN (q + 1) * HundredM ELSE q * HundredM

\* A cache content: the rows of `hits` (a function from <<from, to>> pairs of
\* places to a row) under their keys, the pairs of `failing` raising.
KeyOf(pair) == make_cache_key(pair[1].lat, pair[1].lng, pair[2].lat, pair[2].lng)
CacheWith(hits, failing) ==
    [key \in {KeyOf(p) : p \in DOMAIN hits \cup failing} |->
        IF \E p \in failing : KeyOf(p) = key THEN [error |-> TRUE, data |-> <<>>]
        ELSE [error |-> FALSE, data |-> <<hits[CHOOSE p \in DOMAIN hits : KeyOf(p) = key]>>]]

Row(minutes, distance_km) == [minutes |-> minutes, distance_km |-> distance_km]

(***************************************************************************)
(* TSP solver.  Indices into stop_coords and stop_ids run from 1 here,     *)
(* from 0 in the code.                                                     *)
(***************************************************************************)
RECURSIVE ConcatAll(_)
ConcatAll(ss) == IF ss = <<>> THEN <<>> ELSE Head(ss) \o ConcatAll(Tail(ss))

RemoveAt(s, i) == [j \in 1..(Len(s) - 1) |-> IF j < i THEN s[j] ELSE s[j + 1]]

\* itertools.permutations(s): all orders of s, in lexicographic order of position
RECURSIVE permutations(_)
permutations(s) ==
    IF s = <<>> THEN << <<>> >>
    ELSE ConcatAll([i \in 1..Len(s) |->
            LET rest == permutations(RemoveAt(s, i))
            IN  [j \in 1..Len(rest) |-> <<s[i]>> \o rest[j]]])

\* get_cached_distance_km between two (lat, lng) pairs
DistKm(a, b) == get_cached_distance_km(a.lat, a.lng, b.lat, b.lng)
\* get_cached_travel_time between two (lat, lng) pairs
TravelTime(a, b) == get_cached_travel_time(a.lat, a.lng, b.lat, b.lng)

\* total_km of one permutation in solve_tsp_bruteforce: home -> perm -> home
RECURSIVE PermLegs(_, _, _)
PermLegs(stop_coords, perm, i) ==
    IF i >= Len(perm) THEN 0
    ELSE DistKm(stop_coords[perm[i]], stop_coords[perm[i + 1]])
         + PermLegs(stop_coords, perm, i + 1)

PermKm(home_coords, stop_coords, perm) ==
    DistKm(home_coords, stop_coords[perm[1]])
    + PermLegs(stop_coords, perm, 1)
    + DistKm(stop_coords[perm[Len(perm)]], home_coords)

\* the loop over the permutations: best.order is empty while best_distance is inf
NoBestOrder == [order |-> <<>>, distance |-> 0]
RECURSIVE BruteLoopLast(_, _, _, _, _)
BruteLoopLast(home_coords, stop_coords, perms, k, best) ==
    IF k > Len(perms) THEN best
    ELSE LET total_km == PermKm(home_coords, stop_coords, perms[k])
         IN  BruteLoopLast(home_coords, stop_coords, perms, k + 1,
                IF best = NoBestOrder \/ total_km <= best.distance
                THEN [order |-> perms[k], distance |-> total_km]
                ELSE best)

RECURSIVE BruteLoop(_, _, _, _, _)
BruteLoop(home_coords, stop_coords, perms, k, best) ==
    IF k > Len(perms) THEN best
    ELSE LET total_km == PermKm(home_coords, stop_coords, perms[k])
         IN  BruteLoop(home_coords, stop_coords, perms, k + 1,
                IF best = NoBestOrder \/ total_km < best.distance
                THEN [order |-> perms[k], distance |-> total_km]
                ELSE best)

\* a variant: the comparison is <=, so the last minimum wins
solve_tsp_bruteforce_last(home_coords, stop_coords, stop_ids) ==
    IF Len(stop_coords) = 0 THEN [order |-> <<>>, total |-> 0]
    ELSE LET best == BruteLoopLast(home_coords, stop_coords,
                                   permutations([i \in 1..Len(stop_coords) |-> i]), 1, NoBestOrder)
         IN  [order |-> [i \in 1..Len(best.order) |-> stop_ids[best.order[i]]],
              total |-> best.distance]

solve_tsp_bruteforce(home_coords, stop_coords, stop_ids) ==
    IF Len(stop_coords) = 0 THEN [order |-> <<>>, total |-> 0]
    ELSE IF Len(stop_coords) = 1
    THEN [order |-> <<stop_ids[1]>>,
          total |-> DistKm(home_coords, stop_coords[1]) + DistKm(stop_coords[1], home_coords)]
    ELSE LET best == BruteLoop(home_coords, stop_coords,
                               permutations([i \in 1..Len(stop_coords) |-> i]), 1, NoBestOrder)
         IN  [order |-> [i \in 1..Len(best.order) |-> stop_ids[best.order[i]]],
              total |-> best.distance]

\* the inner loop of solve_tsp_nearest_neighbor over `remaining`: best.idx is 0
\* while best_idx is None and best_dist is inf
NoBestIdx == [idx |-> 0, dist |-> 0]
RECURSIVE NearestFarthest(_, _, _, _, _)
NearestFarthest(current, stop_coords, remaining, k, best) ==
    IF k > Len(remaining) THEN best
    ELSE LET dist == DistKm(current, stop_coords[remaining[k]])
         IN  NearestFarthest(current, stop_coords, remaining, k + 1,
                IF best = NoBestIdx \/ dist > best.dist
                THEN [idx |-> remaining[k], dist |-> dist] ELSE best)

RECURSIVE Nearest(_, _, _, _, _)
Nearest(current, stop_coords, remaining, k, best) ==
    IF k > Len(remaining) THEN best
    ELSE LET dist == DistKm(current, stop_coords[remaining[k]])
         IN  Nearest(current, stop_coords, remaining, k + 1,
                IF best = NoBestIdx \/ dist < best.dist
                THEN [idx |-> remaining[k], dist |-> dist] ELSE best)

\* a variant: the head of the list is removed, whatever x is
RemoveHead(s, x) == IF s = <<>> THEN s ELSE Tail(s)

\* remaining.remove(x): the list without the first element equal to x
RemoveFirst(s, x) ==
    IF \E i \in 1..Len(s) : s[i] = x
    THEN RemoveAt(s, CHOOSE i \in 1..Len(s) : s[i] = x /\ \A j \in 1..(i - 1) : s[j] # x)
    ELSE s

\* the while loop of solve_tsp_nearest_neighbor
RECURSIVE NearestLoop(_, _, _, _, _, _)
NearestLoop(home_coords, stop_coords, remaining, route_indices, total_km, current) ==
    IF remaining = <<>>
    THEN [route_indices |-> route_indices,
          total_km |-> total_km + DistKm(current, home_coords)]
    ELSE LET best == Nearest(current, stop_coords, remaining, 1, NoBestIdx)
         IN  NearestLoop(home_coords, stop_coords, RemoveFirst(remaining, best.idx),
                         Append(route_indices, best.idx), total_km + best.dist,
                         stop_coords[best.idx])

\* a variant: each step goes to the farthest remaining stop
RECURSIVE NearestLoopFarthest(_, _, _, _, _, _)
NearestLoopFarthest(home_coords, stop_coords, remaining, route_indices, total_km, current) ==
    IF remaining = <<>>
    THEN [route_indices |-> route_indices,
          total_km |-> total_km + DistKm(current, home_coords)]
    ELSE LET best == NearestFarthest(current, stop_coords, remaining, 1, NoBestIdx)
         IN  NearestLoopFarthest(home_coords, stop_coords, RemoveFirst(remaining, best.idx),
                         Append(route_indices, best.idx), total_km + best.dist,
                         stop_coords[best.idx])

solve_tsp_nearest_neighbor_farthest(home_coords, stop_coords, stop_ids) ==
    IF Len(stop_coords) = 0 THEN [order |-> <<>>, total |-> 0]
    ELSE LET r == NearestLoopFarthest(home_coords, stop_coords,
                              [i \in 1..Len(stop_coords) |-> i], <<>>, 0, home_coords)
         IN  [order |-> [i \in 1..Len(r.route_indices) |-> stop_ids[r.route_indices[i]]],
              total |-> r.total_km]

solve_tsp_nearest_neighbor(home_coords, stop_coords, stop_ids) ==
    IF Len(stop_coords) = 0 THEN [order |-> <<>>, total |-> 0]
    ELSE LET r == NearestLoop(home_coords, stop_coords,
                              [i \in 1..Len(stop_coords) |-> i], <<>>, 0, home_coords)
         IN  [order |-> [i \in 1..Len(r.route_indices) |-> stop_ids[r.route_indices[i]]],
              total |-> r.total_km]

BruteForceMax == 7

solve_tsp(home_coords, stop_coords, stop_ids) ==
    IF Len(stop_coords) <= BruteForceMax
    THEN solve_tsp_bruteforce(home_coords, stop_coords, stop_ids)
    ELSE solve_tsp_nearest_neighbor(home_coords, stop_coords, stop_ids)

(***************************************************************************)
(* Times of the day.  A time string 'HH:MM:SS' of the database is the      *)
(* record [hh, mm, ss]; a time 'HH:MM' of a stop is the record [hh, mm].   *)
(***************************************************************************)
\* time_str_to_minutes: hours * 60 + minutes of the parts of the string
time_str_to_minutes(time_str) == time_str.hh * MinPerHour + time_str.mm

\* time_str[:5] : 'HH:MM:SS' cut to 'HH:MM'
FirstFive(time_str) == [hh |-> time_str.hh, mm |-> time_str.mm]

HoursPerDay == 24

\* (day_midnight + timedelta(minutes=m)).strftime('%H:%M')
strftime(dt) == [hh |-> (dt.m \div MinPerHour) % HoursPerDay, mm |-> dt.m % MinPerHour]

(***************************************************************************)
(* list.sort(key=...): a stable sort.  Sorted here are lists of records    *)
(* with a field `key`.                                                     *)
(***************************************************************************)
\* the position of x in the sorted list: behind every element whose key is <=
InsertByKey(sorted, x) ==
    LET behind == Cardinality({i \in 1..Len(sorted) : sorted[i].key <= x.key})
    IN  [i \in 1..(Len(sorted) + 1) |->
            IF i <= behind THEN sorted[i] ELSE IF i = behind + 1 THEN x ELSE sorted[i - 1]]

RECURSIVE SortByKey(_)
SortByKey(s) ==
    IF s = <<>> THEN <<>>
    ELSE Only({InsertByKey(front, s[Len(s)]) : front \in {SortByKey(SubSeq(s, 1, Len(s) - 1))}})

\* existing_inspections.sort(key=lambda x: time_str_to_minutes(x.scheduled_start_time))
SortExisting(existing_inspections) ==
    LET keyed == [i \in 1..Len(existing_inspections) |->
                    [key |-> time_str_to_minutes(existing_inspections[i].scheduled_start_time),
                     ins |-> existing_inspections[i]]]
    IN  Only({[i \in 1..Len(sorted) |-> sorted[i].ins] : sorted \in {SortByKey(keyed)}})

(***************************************************************************)
(* build_existing_only_route                                               *)
(***************************************************************************)
\* the route_stops.append of the loop, for the stop at position seq
ExistingStop(seq, ins, prev_coords) ==
    [sequence |-> seq,
     monday_item_id |-> ins.id,
     start_time |-> FirstFive(ins.scheduled_start_time),
     end_time |-> FirstFive(ins.scheduled_end_time),
     duration_minutes |-> ins.duration_minutes,
     travel_from_previous_mins |->
        IF seq = 1 THEN 0 ELSE IntRound(TravelTime(prev_coords, ins.coords)),
     distance_from_previous_km |-> RoundKm1(DistKm(prev_coords, ins.coords)),
     is_existing |-> TRUE]

\* the same, with the end time computed from the start and the duration
ExistingStopRecomputed(seq, ins, prev_coords) ==
    [ExistingStop(seq, ins, prev_coords) EXCEPT
        !.end_time = strftime(AtMinute(time_str_to_minutes(ins.scheduled_start_time)
                                        + ins.duration_minutes))]

\* the coordinates before position seq of a list of inspections
PrevCoords(home_coords, inspections, seq) ==
    IF seq = 1 THEN home_coords ELSE inspections[seq - 1].coords

\* total_km of a list of inspections visited in order from home and back
LegsKm(home_coords, inspections) ==
    SumSeq([seq \in 1..Len(inspections) |->
              DistKm(PrevCoords(home_coords, inspections, seq), inspections[seq].coords)])
    + (IF inspections = <<>> THEN 0
       ELSE DistKm(inspections[Len(inspections)].coords, home_coords))

\* a variant: the end time of a locked stop is its start plus its duration
build_existing_only_route_recomputed(inspector, existing_inspections, home_coords) ==
    Only({[route_stops |-> [seq \in 1..Len(sorted) |->
                              ExistingStopRecomputed(seq, sorted[seq],
                                                     PrevCoords(home_coords, sorted, seq))],
           total_km |-> LegsKm(home_coords, sorted)] :
          sorted \in {SortExisting(existing_inspections)}})

build_existing_only_route(inspector, existing_inspections, home_coords) ==
    Only({[route_stops |-> [seq \in 1..Len(sorted) |->
                              ExistingStop(seq, sorted[seq],
                                           PrevCoords(home_coords, sorted, seq))],
           total_km |-> LegsKm(home_coords, sorted)] :
          sorted \in {SortExisting(existing_inspections)}})

(***************************************************************************)
(* schedule_new_only_route                                                 *)
(***************************************************************************)
\* inspection_by_id[inspection_id]
InspectionById(inspections, id) ==
    inspections[CHOOSE i \in 1..Len(inspections) :
                    inspections[i].id = id
                    /\ \A j \in (i + 1)..Len(inspections) : inspections[j].id # id]

\* a variant: the first stop is reached from home like any other
NewOnlyStopFromHome(seq, ins, current_min, prev_coords) ==
    LET travel_min == IntRound(TravelTime(prev_coords, ins.coords))
        leg_km == DistKm(prev_coords, ins.coords)
        start_dt == round_to_nearest_5_min(AtMinute(current_min + travel_min))
        start_min == MinutesOfDelta(start_dt)
        end_min == start_min + ins.duration_minutes
    IN  [end_min |-> end_min,
         stop |-> [sequence |-> seq,
                   monday_item_id |-> ins.id,
                   start_time |-> strftime(start_dt),
                   end_time |-> strftime(AtMinute(end_min)),
                   duration_minutes |-> ins.duration_minutes,
                   travel_from_previous_mins |-> travel_min,
                   distance_from_previous_km |-> RoundKm1(leg_km),
                   is_existing |-> FALSE]]

\* one pass of the loop: the stop appended and the end_min the clock is left at
NewOnlyStop(seq, ins, current_min, prev_coords) ==
    LET travel_min == IF seq = 1 THEN 0
                      ELSE IntRound(TravelTime(prev_coords, ins.coords))
        leg_km == DistKm(prev_coords, ins.coords)
        start_dt == round_to_nearest_5_min(AtMinute(current_min + travel_min))
        start_min == MinutesOfDelta(start_dt)
        end_min == start_min + ins.duration_minutes
    IN  [end_min |-> end_min,
         stop |-> [sequence |-> seq,
                   monday_item_id |-> ins.id,
                   start_time |-> strftime(start_dt),
                   end_time |-> strftime(AtMinute(end_min)),
                   duration_minutes |-> ins.duration_minutes,
                   travel_from_previous_mins |-> travel_min,
                   distance_from_previous_km |-> RoundKm1(leg_km),
                   is_existing |-> FALSE]]

\* the loop over optimal_order, from position seq on
RECURSIVE NewOnlyLoop(_, _, _, _, _, _)
NewOnlyLoop(new_inspections, optimal_order, seq, current_min, prev_coords, route_stops) ==
    IF seq > Len(optimal_order) THEN route_stops
    ELSE Only({NewOnlyLoop(new_inspections, optimal_order, seq + 1, pass.end_min,
                           ins.coords, Append(route_stops, pass.stop)) :
               ins \in {InspectionById(new_inspections, optimal_order[seq])},
               pass \in {NewOnlyStop(seq, InspectionById(new_inspections, optimal_order[seq]),
                                     current_min, prev_coords)}})

schedule_new_only_route(inspector, new_inspections, home_coords) ==
    LET stop_coords == [i \in 1..Len(new_inspections) |-> new_inspections[i].coords]
        stop_ids == [i \in 1..Len(new_inspections) |-> new_inspections[i].id]
    IN  Only({[route_stops |-> NewOnlyLoop(new_inspections, solved.order, 1,
                                           inspector.available_start_min, home_coords, <<>>),
               total_km |-> solved.total] :
              solved \in {solve_tsp(home_coords, stop_coords, stop_ids)}})

(***************************************************************************)
(* schedule_mixed_route                                                    *)
(***************************************************************************)
\* existing_slots, of the sorted existing inspections
ExistingSlots(sorted) ==
    [i \in 1..Len(sorted) |->
        [inspection |-> sorted[i],
         start_min |-> time_str_to_minutes(sorted[i].scheduled_start_time),
         end_min |-> time_str_to_minutes(sorted[i].scheduled_end_time),
         coords |-> sorted[i].coords]]

DayEndHour == 17
GapThreshold == 15

Gap(start_min, end_min, prev_coords, next_coords) ==
    [start_min |-> start_min, end_min |-> end_min,
     prev_coords |-> prev_coords, next_coords |-> next_coords]

\* the gaps between consecutive slots, from pair i on
RECURSIVE GapsBetweenInclusive(_, _)
GapsBetweenInclusive(existing_slots, i) ==
    IF i >= Len(existing_slots) THEN <<>>
    ELSE (IF existing_slots[i + 1].start_min >= existing_slots[i].end_min + GapThreshold
          THEN <<Gap(existing_slots[i].end_min, existing_slots[i + 1].start_min,
                     existing_slots[i].coords, existing_slots[i + 1].coords)>>
          ELSE <<>>)
         \o GapsBetweenInclusive(existing_slots, i + 1)

RECURSIVE GapsBetween(_, _)
GapsBetween(existing_slots, i) ==
    IF i >= Len(existing_slots) THEN <<>>
    ELSE (IF existing_slots[i + 1].start_min > existing_slots[i].end_min + GapThreshold
          THEN <<Gap(existing_slots[i].end_min, existing_slots[i + 1].start_min,
                     existing_slots[i].coords, existing_slots[i + 1].coords)>>
          ELSE <<>>)
         \o GapsBetween(existing_slots, i + 1)

\* a variant: a gap of exactly the threshold is kept
FindGapsInclusive(inspector, existing_slots, home_coords) ==
    LET day_start == inspector.available_start_min
        day_end == DayEndHour * MinPerHour
        n == Len(existing_slots)
    IN  IF n = 0 THEN <<Gap(day_start, day_end, home_coords, home_coords)>>
        ELSE (IF existing_slots[1].start_min > day_start
              THEN <<Gap(day_start, existing_slots[1].start_min,
                         home_coords, existing_slots[1].coords)>>
              ELSE <<>>)
             \o GapsBetweenInclusive(existing_slots, 1)
             \o (IF day_end > existing_slots[n].end_min
                 THEN <<Gap(existing_slots[n].end_min, day_end,
                            existing_slots[n].coords, home_coords)>>
                 ELSE <<>>)

\* gaps: before the first slot, between the slots, after the last slot
FindGaps(inspector, existing_slots, home_coords) ==
    LET day_start == inspector.available_start_min
        day_end == DayEndHour * MinPerHour
        n == Len(existing_slots)
    IN  IF n = 0 THEN <<Gap(day_start, day_end, home_coords, home_coords)>>
        ELSE (IF existing_slots[1].start_min > day_start
              THEN <<Gap(day_start, existing_slots[1].start_min,
                         home_coords, existing_slots[1].coords)>>
              ELSE <<>>)
             \o GapsBetween(existing_slots, 1)
             \o (IF day_end > existing_slots[n].end_min
                 THEN <<Gap(existing_slots[n].end_min, day_end,
                            existing_slots[n].coords, home_coords)>>
                 ELSE <<>>)

\* "if current_min + travel_to + ins['duration_minutes'] <= gap['end_min']",
\* the float travel_to in tenths of a minute
Fits(current_min, prev_coords, ins, gap) ==
    current_min * TenthsPerMin + TravelTime(prev_coords, ins.coords)
        + ins.duration_minutes * TenthsPerMin <= gap.end_min * TenthsPerMin

\* score = travel_to + travel_out
Score(prev_coords, ins, gap) ==
    TravelTime(prev_coords, ins.coords) + TravelTime(ins.coords, gap.next_coords)

\* the loop "for ins in remaining_new": best.k is 0 while best_ins is None,
\* and the position in remaining_new of best_ins otherwise
NoBestIns == [k |-> 0, score |-> 0]

\* a variant: the task of least score is taken whether it fits or not, and
\* the pass places nothing when that task does not fit
RECURSIVE BestInsLoopCheapest(_, _, _, _, _, _)
BestInsLoopCheapest(remaining_new, k, best, current_min, prev_coords, gap) ==
    IF k > Len(remaining_new)
    THEN (IF best # NoBestIns /\ Fits(current_min, prev_coords, remaining_new[best.k], gap)
          THEN best ELSE NoBestIns)
    ELSE Only({BestInsLoopCheapest(remaining_new, k + 1, next, current_min, prev_coords, gap) :
               next \in {IF \/ best = NoBestIns
                            \/ Score(prev_coords, remaining_new[k], gap) < best.score
                         THEN [k |-> k, score |-> Score(prev_coords, remaining_new[k], gap)]
                         ELSE best}})

RECURSIVE BestInsLoop(_, _, _, _, _, _)
BestInsLoop(remaining_new, k, best, current_min, prev_coords, gap) ==
    IF k > Len(remaining_new) THEN best
    ELSE Only({BestInsLoop(remaining_new, k + 1, next, current_min, prev_coords, gap) :
               next \in {IF /\ Fits(current_min, prev_coords, remaining_new[k], gap)
                            /\ \/ best = NoBestIns
                               \/ Score(prev_coords, remaining_new[k], gap) < best.score
                         THEN [k |-> k, score |-> Score(prev_coords, remaining_new[k], gap)]
                         ELSE best}})

\* the record appended to assigned_new for best_ins
Assigned(best_ins, current_min, prev_coords) ==
    LET travel_min == IntRound(TravelTime(prev_coords, best_ins.coords))
        start_dt == round_to_nearest_5_min(AtMinute(current_min + travel_min))
        start_min == MinutesOfDelta(start_dt)
        end_min == start_min + best_ins.duration_minutes
    IN  [inspection |-> best_ins,
         start_min |-> start_min,
         end_min |-> end_min,
         start_time |-> strftime(start_dt),
         end_time |-> strftime(AtMinute(end_min)),
         travel_min |-> travel_min,
         coords |-> best_ins.coords]

\* One pass of the while loop of a gap.  st is [assigned_new, remaining_new,
\* steps]; steps is the history of the passes: for each, the gap, current_min,
\* prev_coords and remaining_new it started with, and the inspection it
\* placed (a list of one) or none (the empty list: the break).
GapPass(gap, current_min, prev_coords, st) ==
    LET step == [gap |-> gap, current_min |-> current_min, prev_coords |-> prev_coords,
                 remaining_new |-> st.remaining_new, placed |-> <<>>]
    IN  Only({IF best # NoBestIns
              THEN Only({[placed |-> TRUE, end_min |-> a.end_min, coords |-> a.coords,
                          st |-> [assigned_new |-> Append(st.assigned_new, a),
                                  remaining_new |->
                                      RemoveFirst(st.remaining_new, st.remaining_new[best.k]),
                                  steps |-> Append(st.steps,
                                      [step EXCEPT !.placed = <<st.remaining_new[best.k]>>])]] :
                         a \in {Assigned(st.remaining_new[best.k], current_min, prev_coords)}})
              ELSE [placed |-> FALSE, end_min |-> current_min, coords |-> prev_coords,
                    st |-> [st EXCEPT !.steps = Append(@, step)]] :
              best \in {BestInsLoop(st.remaining_new, 1, NoBestIns,
                                    current_min, prev_coords, gap)}})

\* "while remaining_new and current_min < gap['end_min']"
RECURSIVE GapLoop(_, _, _, _)
GapLoop(gap, current_min, prev_coords, st) ==
    IF st.remaining_new = <<>> \/ ~(current_min < gap.end_min) THEN st
    ELSE Only({IF pass.placed THEN GapLoop(gap, pass.end_min, pass.coords, pass.st)
               ELSE pass.st :
               pass \in {GapPass(gap, current_min, prev_coords, st)}})

\* "for gap in gaps"
RECURSIVE FillGaps(_, _, _)
FillGaps(gaps, g, st) ==
    IF g > Len(gaps) THEN st
    ELSE Only({FillGaps(gaps, g + 1, next) :
               next \in {GapLoop(gaps[g], gaps[g].start_min, gaps[g].prev_coords, st)}})

\* all_stops before the sort: the slots, then assigned_new
AllStops(existing_slots, assigned_new) ==
    [i \in 1..Len(existing_slots) |->
        [key |-> existing_slots[i].start_min,
         inspection |-> existing_slots[i].inspection,
         start_time |-> FirstFive(existing_slots[i].inspection.scheduled_start_time),
         end_time |-> FirstFive(existing_slots[i].inspection.scheduled_end_time),
         travel_min |-> 0,
         is_existing |-> TRUE]]
    \o
    [i \in 1..Len(assigned_new) |->
        [key |-> assigned_new[i].start_min,
         inspection |-> assigned_new[i].inspection,
         start_time |-> assigned_new[i].start_time,
         end_time |-> assigned_new[i].end_time,
         travel_min |-> assigned_new[i].travel_min,
         is_existing |-> FALSE]]

\* the route_stops.append of the final loop, for the stop at position seq
MixedStop(seq, stop, prev_coords) ==
    [sequence |-> seq,
     monday_item_id |-> stop.inspection.id,
     start_time |-> stop.start_time,
     end_time |-> stop.end_time,
     duration_minutes |-> stop.inspection.duration_minutes,
     travel_from_previous_mins |->
        IF seq = 1 THEN 0
        ELSE IF stop.is_existing THEN IntRound(TravelTime(prev_coords, stop.inspection.coords))
        ELSE stop.travel_min,
     distance_from_previous_km |-> RoundKm1(DistKm(prev_coords, stop.inspection.coords)),
     is_existing |-> stop.is_existing]

\* the final loop over all_stops, and the return-home distance
MixedRoute(all_stops, home_coords) ==
    Only({[route_stops |-> [seq \in 1..Len(all_stops) |->
                              MixedStop(seq, all_stops[seq],
                                        PrevCoords(home_coords, visited, seq))],
           total_km |-> LegsKm(home_coords, visited)] :
          visited \in {[i \in 1..Len(all_stops) |-> all_stops[i].inspection]}})

\* Beside route_stops and total_km, the value holds the gaps, assigned_new,
\* the steps of the gap loops, and remaining_new, which the code prints.
schedule_mixed_route(inspector, existing_inspections, new_inspections, home_coords) ==
    Only({Only({Only({Only({
        [route_stops |-> r.route_stops,
         total_km |-> r.total_km,
         gaps |-> gaps,
         assigned_new |-> filled.assigned_new,
         remaining_new |-> filled.remaining_new,
         steps |-> filled.steps] :
        r \in {MixedRoute(SortByKey(AllStops(existing_slots, filled.assigned_new)),
                          home_coords)}}) :
        filled \in {FillGaps(gaps, 1, [assigned_new |-> <<>>,
                                       remaining_new |-> new_inspections,
                                       steps |-> <<>>])}}) :
        gaps \in {FindGaps(inspector, existing_slots, home_coords)}}) :
        existing_slots \in {ExistingSlots(SortExisting(existing_inspections))}})

(***************************************************************************)
(* Rounding alone: the argument is drawn from a window of minutes around   *)
(* 09:00 and from the last minutes of the day, with seconds and            *)
(* microseconds at and next to their extremes.                             *)
(***************************************************************************)
RoundSpan == 12
RoundFrom == 9 * 60 - 2
RoundMinutes == (RoundFrom .. RoundFrom + RoundSpan) \cup ((MinPerDay - 3) .. (MinPerDay - 1))
RoundSeconds == {0, 1, 59}
RoundMicros == {0, 1, UsPerSec - 1}

InitRound ==
    /\ cache = Idle /\ tsp = Idle /\ route = Idle /\ batch = Idle
    /\ metric = Idle /\ insp = Idle
    /\ \E m \in RoundMinutes, s \in RoundSeconds, us \in RoundMicros :
          rnd = [pc |-> "call", dt |-> [m |-> m, s |-> s, us |-> us],
                 out |-> [m |-> 0, s |-> 0, us |-> 0]]

RoundCall ==
    /\ rnd.pc = "call"
    /\ rnd' = [rnd EXCEPT !.pc = "returned", !.out = round_to_nearest_5_min(rnd.dt)]
    /\ UNCHANGED <<cache, tsp, route, batch, metric, insp>>

NextRound == RoundCall

SpecRound == InitRound /\ [][NextRound]_vars

\* a <= b on datetimes, field by field
DtLeq(a, b) ==
    \/ a.m < b.m
    \/ a.m = b.m /\ a.s < b.s
    \/ a.m = b.m /\ a.s = b.s /\ a.us <= b.us

OnBoundary(dt) == dt.m % RoundStepMin = 0 /\ dt.s = 0 /\ dt.us = 0

\* C10: the rounding returns the least multiple of 5 minutes that is >= t:
\* the result is on a 5-minute boundary, is not earlier than t, is less than
\* 5 minutes later than t, equals t when t is on a boundary, and rounding the
\* result again returns it unchanged.
C10_RoundUpLeast ==
    rnd.pc = "returned" =>
        /\ OnBoundary(rnd.out)
        /\ DtLeq(rnd.dt, rnd.out)
        /\ ~DtLeq([rnd.dt EXCEPT !.m = @ + RoundStepMin], rnd.out)
        /\ (OnBoundary(rnd.dt) => rnd.out = rnd.dt)
        /\ round_to_nearest_5_min(rnd.out) = rnd.out

\* C10 witness: a time with seconds past a 5-minute boundary was moved up to
\* the next boundary, across midnight in one case
C10_Witness ==
    /\ rnd.pc = "returned"
    /\ rnd.dt.m % RoundStepMin = 0 /\ rnd.dt.s = 59 /\ rnd.dt.us = 1
    /\ rnd.out = AtMinute(rnd.dt.m + RoundStepMin)

(***************************************************************************)
(* The TSP solver alone: home is PointH; the stops are drawn from the      *)
(* other places (several stops may share a place), up to MaxStops of them, *)
(* and a few lists one longer than the brute-force limit; the cache holds  *)
(* any subset of three rows, one of them without a distance, which makes   *)
(* the distances differ by direction, and one query may fail (for the long *)
(* lists: no row or all three).                                            *)
(***************************************************************************)
MaxStops == 3
StopPlaces == <<PointA, PointB, PointC>>
LongPatterns == 1..3

TspHits ==
    (<<PointH, PointA>> :> Row(<<100>>, <<5000>>)) @@
    (<<PointA, PointB>> :> Row(<<60>>, <<500>>)) @@
    (<<PointB, PointH>> :> Row(<<70>>, <<>>))

Restrict(f, S) == [x \in S |-> f[x]]

TspCaches ==
    {CacheWith(Restrict(TspHits, S), F) :
        S \in SUBSET DOMAIN TspHits, F \in {{}, {<<PointC, PointH>>}}}

TspLongCaches == {CacheWith(Restrict(TspHits, S), {}) : S \in {{}, DOMAIN TspHits}}

TspStops == SeqsUpTo(Range(StopPlaces), MaxStops) \ {<<>>}

TspLongStops ==
    {[i \in 1..(BruteForceMax + 1) |-> StopPlaces[((i * k) % Len(StopPlaces)) + 1]] :
        k \in LongPatterns}

\* the ids of the stops: not their positions
IdOfStop(i) == 100 + i

InitTsp ==
    /\ rnd = Idle /\ route = Idle /\ batch = Idle
    /\ metric = Idle /\ insp = Idle
    /\ \E stops \in TspStops \cup TspLongStops :
          /\ cache \in IF stops \in TspStops THEN TspCaches ELSE TspLongCaches
          /\    tsp = [pc |-> "call", home_coords |-> PointH, stop_coords |-> stops,
                    stop_ids |-> [i \in 1..Len(stops) |-> IdOfStop(i)],
                    solver |-> "none", order |-> <<>>, total |-> 0]

\* solve_tsp(home_coords, stop_coords, stop_ids)
TspSolve ==
    /\ tsp.pc = "call"
    /\ LET r == solve_tsp(tsp.home_coords, tsp.stop_coords, tsp.stop_ids)
       IN  tsp' = [tsp EXCEPT !.pc = "returned",
                              !.solver = IF Len(tsp.stop_coords) <= BruteForceMax
                                         THEN "bruteforce" ELSE "nearest_neighbor",
                              !.order = r.order, !.total = r.total]
    /\ UNCHANGED <<cache, rnd, route, batch, metric, insp>>

\* solve_tsp_nearest_neighbor(home_coords, stop_coords, stop_ids), called directly
TspNearest ==
    /\ tsp.pc = "call"
    /\ LET r == solve_tsp_nearest_neighbor(tsp.home_coords, tsp.stop_coords, tsp.stop_ids)
       IN  tsp' = [tsp EXCEPT !.pc = "returned", !.solver = "nearest_neighbor",
                              !.order = r.order, !.total = r.total]
    /\ UNCHANGED <<cache, rnd, route, batch, metric, insp>>

NextTsp == TspSolve \/ TspNearest

SpecTsp == InitTsp /\ [][NextTsp]_vars

\* the position in stop_ids of an id
IndexOfId(stop_ids, id) == CHOOSE i \in 1..Len(stop_ids) : stop_ids[i] = id

\* the distance of the tour home -> idxs[1] -> ... -> idxs[n] -> home
TourKm(home_coords, stop_coords, idxs) ==
    LET n == Len(idxs)
        place(k) == IF k = 0 \/ k = n + 1 THEN home_coords ELSE stop_coords[idxs[k]]
    IN  SumSeq([k \in 1..(n + 1) |-> DistKm(place(k - 1), place(k))])

IsPermutationOf(order, stop_ids) ==
    /\ Len(order) = Len(stop_ids)
    /\ \A i \in 1..Len(stop_ids) : Cardinality({k \in 1..Len(order) : order[k] = stop_ids[i]}) = 1

\* C7: for 1 to 7 stops solve returns a permutation of the ids whose tour
\* distance is <= that of every permutation, returns that distance as total,
\* and returns the first permutation, in enumeration order of the stop
\* indices, among those of minimal distance.
C7_BruteForceOptimalFirst ==
    (tsp.pc = "returned" /\ tsp.solver = "bruteforce") =>
        LET n == Len(tsp.stop_coords)
            perms == permutations([i \in 1..n |-> i])
            km(k) == TourKm(tsp.home_coords, tsp.stop_coords, perms[k])
            idxs == [i \in 1..Len(tsp.order) |-> IndexOfId(tsp.stop_ids, tsp.order[i])]
        IN  /\ IsPermutationOf(tsp.order, tsp.stop_ids)
            /\ tsp.total = TourKm(tsp.home_coords, tsp.stop_coords, idxs)
            /\ \A k \in 1..Len(perms) : tsp.total <= km(k)
            /\ \E k \in 1..Len(perms) :
                  /\ perms[k] = idxs
                  /\ \A j \in 1..(k - 1) : km(j) > tsp.total

\* C7 witness: three stops, two orders of the same minimal distance, and the
\* order returned is not the last of them
C7_Witness ==
    /\ tsp.pc = "returned" /\ tsp.solver = "bruteforce"
    /\ Len(tsp.stop_coords) = 3
    /\ LET perms == permutations(<<1, 2, 3>>)
           idxs == [i \in 1..3 |-> IndexOfId(tsp.stop_ids, tsp.order[i])]
       IN  \E j, k \in 1..Len(perms) :
              /\ j < k /\ perms[j] = idxs
              /\ TourKm(tsp.home_coords, tsp.stop_coords, perms[k]) = tsp.total
              /\ \E l \in 1..Len(perms) :
                    TourKm(tsp.home_coords, tsp.stop_coords, perms[l]) > tsp.total

\* C8: the nearest-neighbor order contains every stop id exactly once; each
\* stop is the nearest not-yet-visited stop from the previous position (home
\* first), the lowest index among the nearest; total is the sum of those legs
\* plus the leg back home, and is >= the tour distance of the best permutation.
C8_NearestNeighbor ==
    (tsp.pc = "returned" /\ tsp.solver = "nearest_neighbor") =>
        LET n == Len(tsp.stop_coords)
            idxs == [i \in 1..Len(tsp.order) |-> IndexOfId(tsp.stop_ids, tsp.order[i])]
            pos(k) == IF k = 1 THEN tsp.home_coords ELSE tsp.stop_coords[idxs[k - 1]]
            unvisited(k) == (1..n) \ {idxs[j] : j \in 1..(k - 1)}
            perms == permutations([i \in 1..n |-> i])
        IN  /\ IsPermutationOf(tsp.order, tsp.stop_ids)
            /\ \A k \in 1..n : \A j \in unvisited(k) :
                  LET dk == DistKm(pos(k), tsp.stop_coords[idxs[k]])
                      dj == DistKm(pos(k), tsp.stop_coords[j])
                  IN  dk < dj \/ (dk = dj /\ idxs[k] <= j)
            /\ tsp.total = TourKm(tsp.home_coords, tsp.stop_coords, idxs)
            /\ LET kms == {TourKm(tsp.home_coords, tsp.stop_coords, perms[k]) :
                                k \in 1..Len(perms)}
                    optimum == CHOOSE d \in kms : \A e \in kms : d <= e
                IN  tsp.total >= optimum

\* C8 witness: more than 7 stops went through solve_tsp to the heuristic,
\* which chose between two equally near stops and returned a tour longer
\* than the best one
C8_Witness ==
    /\ tsp.pc = "returned" /\ tsp.solver = "nearest_neighbor"
    /\ Len(tsp.stop_coords) > BruteForceMax
    /\ LET idxs == [i \in 1..Len(tsp.order) |-> IndexOfId(tsp.stop_ids, tsp.order[i])]
       IN  /\ \E j \in 2..Len(idxs) :
                 DistKm(tsp.home_coords, tsp.stop_coords[idxs[1]])
                    = DistKm(tsp.home_coords, tsp.stop_coords[idxs[j]])
           /\ idxs # [i \in 1..Len(idxs) |-> i]

(***************************************************************************)
(* One worker's route alone: the inspections fetched for the worker are    *)
(* split into existing (locked) and new (flexible) ones and handed to one  *)
(* of the three route builders, as in the loop of                          *)
(* optimize_inspector_routes.  The locked intervals drawn do not overlap   *)
(* one another.                                                            *)
(***************************************************************************)
MaxLocked == 2
MaxFlex == 2

TimeStr(hh, mm) == [hh |-> hh, mm |-> mm, ss |-> 0]
NoTimeStr == TimeStr(0, 0)

Locked(coords, duration, start, end) ==
    [coords |-> coords, duration_minutes |-> duration,
     scheduled_start_time |-> start, scheduled_end_time |-> end]

Flexible(coords, duration) ==
    [coords |-> coords, duration_minutes |-> duration,
     scheduled_start_time |-> NoTimeStr, scheduled_end_time |-> NoTimeStr]

\* 10:00-10:45 at A; 11:00-11:40 (of a task type that lasts 45 minutes) and
\* 11:01-11:40 at B, 15 and 16 minutes after the former; 08:00-08:50 at A,
\* before any availability; 16:30-17:10 at C, past the end of the day
LockedChoices ==
    { Locked(PointA, 45, TimeStr(10, 0), TimeStr(10, 45)),
      Locked(PointB, 45, TimeStr(11, 0), TimeStr(11, 40)),
      Locked(PointB, 39, TimeStr(11, 1), TimeStr(11, 40)),
      Locked(PointA, 50, TimeStr(8, 0), TimeStr(8, 50)),
      Locked(PointC, 40, TimeStr(16, 30), TimeStr(17, 10)) }

\* a long visit at B, a short one at A, a day-filling one at C, a usual one at B
FlexChoices ==
    { Flexible(PointB, 53), Flexible(PointA, 10), Flexible(PointC, 400), Flexible(PointB, 30) }

AvailChoices == {9 * MinPerHour, 10 * MinPerHour + 15}

RouteHits ==
    (<<PointH, PointB>> :> Row(<<64>>, <<>>)) @@
    (<<PointA, PointB>> :> Row(<<200>>, <<4000>>))

RouteCaches == {CacheWith(Restrict(RouteHits, S), {}) : S \in SUBSET DOMAIN RouteHits}

Disjoint(a, b) ==
    \/ time_str_to_minutes(a.scheduled_end_time) <= time_str_to_minutes(b.scheduled_start_time)
    \/ time_str_to_minutes(b.scheduled_end_time) <= time_str_to_minutes(a.scheduled_start_time)

LockedLists ==
    {ls \in SeqsUpTo(LockedChoices, MaxLocked) :
        \A i, j \in 1..Len(ls) : i # j => Disjoint(ls[i], ls[j])}

FlexLists == SeqsUpTo(FlexChoices, MaxFlex)

WithId(task, id) ==
    [id |-> id, coords |-> task.coords, duration_minutes |-> task.duration_minutes,
     scheduled_start_time |-> task.scheduled_start_time,
     scheduled_end_time |-> task.scheduled_end_time]

NoRoute ==
    [route_stops |-> <<>>, total_km |-> 0, gaps |-> <<>>, assigned_new |-> <<>>,
     remaining_new |-> <<>>, steps |-> <<>>]

InitRoute ==
    /\ rnd = Idle /\ tsp = Idle /\ batch = Idle
    /\ metric = Idle /\ insp = Idle
    /\ cache \in RouteCaches
    /\ \E ls \in LockedLists, fs \in FlexLists, avail \in AvailChoices :
          /\ Len(ls) + Len(fs) > 0
          /\ route = [pc |-> "classify",
                      inspector |-> [available_start_min |-> avail],
                      home_coords |-> PointH,
                      existing_inspections |-> [i \in 1..Len(ls) |-> WithId(ls[i], IdOfStop(i))],
                      new_inspections |->
                          [i \in 1..Len(fs) |-> WithId(fs[i], IdOfStop(Len(ls) + i))],
                      built |-> NoRoute]

\* the result of a builder, with the fields only schedule_mixed_route has
Built(r) ==
    [route_stops |-> r.route_stops, total_km |-> r.total_km, gaps |-> <<>>,
     assigned_new |-> <<>>, remaining_new |-> <<>>, steps |-> <<>>]

\* "if existing_inspections and new_inspections": schedule_mixed_route
RouteMixed ==
    /\ route.pc = "classify"
    /\ route.existing_inspections # <<>> /\ route.new_inspections # <<>>
    /\ route' = [route EXCEPT
                    !.pc = "mixed",
                    !.built = schedule_mixed_route(route.inspector, route.existing_inspections,
                                                   route.new_inspections, route.home_coords)]
    /\ UNCHANGED <<cache, rnd, tsp, batch, metric, insp>>

\* "elif existing_inspections": build_existing_only_route
RouteExistingOnly ==
    /\ route.pc = "classify"
    /\ route.existing_inspections # <<>> /\ route.new_inspections = <<>>
    /\ route' = [route EXCEPT
                    !.pc = "existing_only",
                    !.built = Built(build_existing_only_route(route.inspector,
                                        route.existing_inspections, route.home_coords))]
    /\ UNCHANGED <<cache, rnd, tsp, batch, metric, insp>>

\* "else": schedule_new_only_route
RouteNewOnly ==
    /\ route.pc = "classify"
    /\ route.existing_inspections = <<>>
    /\ route' = [route EXCEPT
                    !.pc = "new_only",
                    !.built = Built(schedule_new_only_route(route.inspector,
                                        route.new_inspections, route.home_coords))]
    /\ UNCHANGED <<cache, rnd, tsp, batch, metric, insp>>

NextRoute == RouteMixed \/ RouteExistingOnly \/ RouteNewOnly

SpecRoute == InitRoute /\ [][NextRoute]_vars

RouteReturned == route.pc \in {"mixed", "existing_only", "new_only"}

\* an 'HH:MM' read as a clock time: minutes of the day
Clock(t) == t.hh * 60 + t.mm

\* route_summary['start_time']: the first stop's start_time
RouteStartTime(route_stops) == route_stops[1].start_time

\* C1: in every Route returned, route.start_time equals the first stop's
\* start, every stop's start is <= its own end, and every stop's end is <=
\* the next stop's start (as clock times of the day).
C1_TimesNonDecreasing ==
    (RouteReturned /\ route.built.route_stops # <<>>) =>
        LET stops == route.built.route_stops
        IN  /\ RouteStartTime(stops) = stops[1].start_time
            /\ \A i \in 1..Len(stops) : Clock(stops[i].start_time) <= Clock(stops[i].end_time)
            /\ \A i \in 1..(Len(stops) - 1) :
                  Clock(stops[i].end_time) <= Clock(stops[i + 1].start_time)

StopsOf(id) ==
    {k \in 1..Len(route.built.route_stops) : route.built.route_stops[k].monday_item_id = id}

\* C2: every locked task of the assignment is in the Route exactly once, in
\* the all-locked and in the mixed case, with the hour and minute of its
\* fixed start and of its fixed end.
C2_LockedKept ==
    route.pc \in {"mixed", "existing_only"} =>
        \A i \in 1..Len(route.existing_inspections) :
            LET e == route.existing_inspections[i]
            IN  /\ Cardinality(StopsOf(e.id)) = 1
                /\ \A k \in StopsOf(e.id) :
                      LET stop == route.built.route_stops[k]
                      IN  /\ stop.start_time.hh = e.scheduled_start_time.hh
                          /\ stop.start_time.mm = e.scheduled_start_time.mm
                          /\ stop.end_time.hh = e.scheduled_end_time.hh
                          /\ stop.end_time.mm = e.scheduled_end_time.mm

\* C2 witness: a mixed route in which a flexible stop was placed before a
\* locked stop and another locked stop lasts other than its duration says
C2_Witness ==
    /\ route.pc = "mixed"
    /\ \E j, k \in 1..Len(route.built.route_stops) :
          /\ j < k
          /\ ~route.built.route_stops[j].is_existing
          /\ route.built.route_stops[k].is_existing
    /\ \E i \in 1..Len(route.existing_inspections) :
          LET e == route.existing_inspections[i]
          IN  time_str_to_minutes(e.scheduled_end_time)
                # time_str_to_minutes(e.scheduled_start_time) + e.duration_minutes

\* the locked slots of the route, by start time
LockedSlots == ExistingSlots(SortExisting(route.existing_inspections))

\* the free interval between locked slot i and the next is in gaps
IsGap(i) ==
    \E g \in 1..Len(route.built.gaps) :
        route.built.gaps[g] = Gap(LockedSlots[i].end_min, LockedSlots[i + 1].start_min,
                                  LockedSlots[i].coords, LockedSlots[i + 1].coords)

\* the passes of the gap loops that worked on the free interval after slot i
PassesIn(i) ==
    {k \in 1..Len(route.built.steps) :
        /\ route.built.steps[k].gap.start_min = LockedSlots[i].end_min
        /\ route.built.steps[k].gap.end_min = LockedSlots[i + 1].start_min}

\* the flexible stops of the route that start in the free interval after slot i
FlexibleIn(i) ==
    {k \in 1..Len(route.built.route_stops) :
        /\ ~route.built.route_stops[k].is_existing
        /\ Clock(route.built.route_stops[k].start_time) >= LockedSlots[i].end_min
        /\ Clock(route.built.route_stops[k].start_time) < LockedSlots[i + 1].start_min}

C9_Filled ==
    /\ route.pc = "mixed"
    /\ \E i \in 1..(Len(LockedSlots) - 1) :
          /\ LockedSlots[i + 1].start_min - LockedSlots[i].end_min = 16
          /\ FlexibleIn(i) # {}

\* the positions of the tasks a pass of the greedy insertion could place:
\* those of remaining_new that pass the fit test
Fitting(step) ==
    {k \in 1..Len(step.remaining_new) :
        Fits(step.current_min, step.prev_coords, step.remaining_new[k], step.gap)}

\* the pass placed the task at position k of its remaining_new
PlacedAt(step, k) ==
    /\ step.placed = <<step.remaining_new[k]>>
    /\ \A j \in 1..(k - 1) : step.remaining_new[j] # step.remaining_new[k]

\* the state of the gap loop after a pass that placed a task
AfterPlaced(step) ==
    LET a == Assigned(step.placed[1], step.current_min, step.prev_coords)
    IN  [gap |-> step.gap, current_min |-> a.end_min, prev_coords |-> a.coords,
         remaining_new |-> RemoveFirst(step.remaining_new, step.placed[1]),
         placed |-> <<>>]

CeilFive(m) == 5 * ((m + 4) \div 5)

\* the order solve_tsp returns for the flexible tasks of the route
TspOrder ==
    solve_tsp(route.home_coords,
              [i \in 1..Len(route.new_inspections) |-> route.new_inspections[i].coords],
              [i \in 1..Len(route.new_inspections) |-> route.new_inspections[i].id]).order

\* C16: in an all-flexible route the stops are the tasks in the order of
\* solve_tsp, each task once; the first stop has travel 0 and starts at
\* available_start_min rounded up to 5 minutes; a later stop carries the
\* travel time from the stop before it, in whole minutes, and starts at the
\* end of that stop plus this travel, rounded up to 5 minutes; every stop
\* ends at its start plus its duration (times as clock times of the day).
C16_NewOnlySchedule ==
    route.pc = "new_only" =>
        LET stops == route.built.route_stops
            task(k) == InspectionById(route.new_inspections, stops[k].monday_item_id)
        IN  /\ [k \in 1..Len(stops) |-> stops[k].monday_item_id] = TspOrder
            /\ Len(stops) = Len(route.new_inspections)
            /\ \A i \in 1..Len(route.new_inspections) :
                  Cardinality(StopsOf(route.new_inspections[i].id)) = 1
            /\ \A k \in 1..Len(stops) :
                  /\ stops[k].duration_minutes = task(k).duration_minutes
                  /\ Clock(stops[k].end_time)
                       = (Clock(stops[k].start_time) + stops[k].duration_minutes) % MinPerDay
                  /\ k = 1 =>
                       /\ stops[k].travel_from_previous_mins = 0
                       /\ Clock(stops[k].start_time)
                            = CeilFive(route.inspector.available_start_min) % MinPerDay
                  /\ k > 1 =>
                       /\ stops[k].travel_from_previous_mins
                            = IntRound(TravelTime(task(k - 1).coords, task(k).coords))
                       /\ Clock(stops[k].start_time)
                            = CeilFive(Clock(stops[k - 1].end_time)
                                       + stops[k].travel_from_previous_mins) % MinPerDay

\* C16 witness: an all-flexible route of two stops at different places, the
\* second reached at a minute that is no multiple of 5
C16_Witness ==
    /\ route.pc = "new_only"
    /\ Len(route.built.route_stops) = 2
    /\ route.built.route_stops[2].travel_from_previous_mins > 0
    /\ (Clock(route.built.route_stops[1].end_time)
          + route.built.route_stops[2].travel_from_previous_mins) % 5 # 0
    /\ TspOrder # [i \in 1..Len(route.new_inspections) |-> route.new_inspections[i].id]

\* the task a stop of the route visits
TaskOfStop(stop) ==
    InspectionById(route.existing_inspections \o route.new_inspections, stop.monday_item_id)

\* the place a stop of the route is reached from: home for the first stop
\* and the place of the stop before it otherwise
ReachedFrom(k) ==
    IF k = 1 THEN route.home_coords
    ELSE TaskOfStop(route.built.route_stops[k - 1]).coords

\* C17: in an all-locked route the stops are the locked tasks by ascending
\* fixed start, input order kept among equal starts, and every stop, the
\* first included, carries the travel time and the distance of the travel
\* metric from the place it is reached from (home for the first stop).
C17_LockedTravelFromHome ==
    route.pc = "existing_only" =>
        LET stops == route.built.route_stops
        IN  /\ [k \in 1..Len(stops) |-> TaskOfStop(stops[k])]
                 = SortExisting(route.existing_inspections)
            /\ \A k \in 1..Len(stops) :
                  /\ stops[k].travel_from_previous_mins
                       = IntRound(TravelTime(ReachedFrom(k), TaskOfStop(stops[k]).coords))
                  /\ stops[k].distance_from_previous_km
                       = RoundKm1(DistKm(ReachedFrom(k), TaskOfStop(stops[k]).coords))

\* C18: in a mixed route the stops are the locked tasks and the flexible
\* tasks placed, each once, by ascending start; every stop, locked or
\* flexible, carries the travel time and the distance of the travel metric
\* from the stop before it in that order (from home for the first stop).
C18_MixedTravelFromPredecessor ==
    route.pc = "mixed" =>
        LET stops == route.built.route_stops
        IN  /\ Len(stops) = Len(route.existing_inspections) + Len(route.built.assigned_new)
            /\ \A i \in 1..Len(route.existing_inspections) :
                  Cardinality(StopsOf(route.existing_inspections[i].id)) = 1
            /\ \A i \in 1..Len(route.built.assigned_new) :
                  Cardinality(StopsOf(route.built.assigned_new[i].inspection.id)) = 1
            /\ \A k \in 1..(Len(stops) - 1) :
                  Clock(stops[k].start_time) <= Clock(stops[k + 1].start_time)
            /\ \A k \in 1..Len(stops) :
                  /\ stops[k].travel_from_previous_mins
                       = IntRound(TravelTime(ReachedFrom(k), TaskOfStop(stops[k]).coords))
                  /\ stops[k].distance_from_previous_km
                       = RoundKm1(DistKm(ReachedFrom(k), TaskOfStop(stops[k]).coords))

\* the gaps of a worker with locked slots, as intervals of its day: the free
\* time before the first slot if there is any, the free time between two
\* consecutive slots if it is longer than 15 minutes, the free time after
\* the last slot until 17:00 if there is any
ExpectedGaps ==
    LET slots == LockedSlots
        n == Len(slots)
        day_start == route.inspector.available_start_min
        before == IF day_start < slots[1].start_min
                  THEN <<Gap(day_start, slots[1].start_min,
                             route.home_coords, slots[1].coords)>>
                  ELSE <<>>
        between == [i \in 1..(n - 1) |->
                      IF slots[i + 1].start_min - slots[i].end_min > 15
                      THEN <<Gap(slots[i].end_min, slots[i + 1].start_min,
                                 slots[i].coords, slots[i + 1].coords)>>
                      ELSE <<>>]
        after == IF slots[n].end_min < 17 * 60
                 THEN <<Gap(slots[n].end_min, 17 * 60, slots[n].coords, route.home_coords)>>
                 ELSE <<>>
    IN  before \o ConcatAll(between) \o after

C19_NoGapCases ==
    /\ route.pc = "mixed"
    /\ route.inspector.available_start_min > LockedSlots[1].start_min
    /\ LockedSlots[Len(LockedSlots)].end_min > 17 * 60
    /\ Len(route.built.gaps) < Len(LockedSlots) + 1

\* C21: in a mixed route no flexible stop starts before the
\* available_start_min of the worker, wherever the locked stops lie.
C21_FlexibleAfterAvailable ==
    route.pc = "mixed" =>
        \A k \in 1..Len(route.built.route_stops) :
            ~route.built.route_stops[k].is_existing =>
                Clock(route.built.route_stops[k].start_time)
                    >= route.inspector.available_start_min

\* the passes of the gap loops that placed a task
PlacingSteps == {j \in 1..Len(route.built.steps) : route.built.steps[j].placed # <<>>}

\* the record appended to assigned_new by pass j
AssignedIn(j) ==
    Assigned(route.built.steps[j].placed[1], route.built.steps[j].current_min,
             route.built.steps[j].prev_coords)

\* C22: every flexible stop the gap loops place lies in the gap it was
\* placed in: its start, after travel and rounding, is at or after the
\* start of the gap, and its end, start plus duration, is at or before the
\* end of the gap; so it overlaps no locked stop of the worker.
C22_PlacedInsideGap ==
    route.pc = "mixed" =>
        \A j \in PlacingSteps :
            /\ AssignedIn(j).start_min >= route.built.steps[j].gap.start_min
            /\ AssignedIn(j).end_min <= route.built.steps[j].gap.end_min
            /\ \A i \in 1..Len(LockedSlots) :
                  \/ AssignedIn(j).end_min <= LockedSlots[i].start_min
                  \/ AssignedIn(j).start_min >= LockedSlots[i].end_min

\* C23: no flexible stop of a route, mixed or all-flexible, ends after
\* 17:00; the tasks of an all-flexible assignment that do not fit before
\* 17:00 are not scheduled behind it.
C23_FlexibleEndsByDayEnd ==
    route.pc \in {"mixed", "new_only"} =>
        \A k \in 1..Len(route.built.route_stops) :
            ~route.built.route_stops[k].is_existing =>
                Clock(route.built.route_stops[k].end_time) <= 17 * 60

(***************************************************************************)
(* optimize_inspector_routes: the loop over the assignments of a batch.    *)
(*                                                                         *)
(* An identifier of an assignment is what the client sent: a number or     *)
(* text that int() accepts (numeric, with its value), or text that int()   *)
(* rejects with ValueError.                                                *)
(***************************************************************************)
MaxAssignments == 3

NumId(n) == [numeric |-> TRUE, value |-> n]
TextId == [numeric |-> FALSE, value |-> 0]

\* some int(id) of the list raises ValueError
Raises(ids) == \E k \in 1..Len(ids) : ~ids[k].numeric

\* [int(id) for id in ids]
IntList(ids) == [k \in 1..Len(ids) |-> ids[k].value]

\* Table inspectors: the home coordinates (none for w3) and the
\* available_start_min that fetch_inspector_data computes for the date.
InspectorRows ==
    ("w1" :> [coords |-> <<PointH>>, available_start_min |-> 9 * MinPerHour]) @@
    ("w2" :> [coords |-> <<PointH>>, available_start_min |-> 10 * MinPerHour + 15]) @@
    ("w3" :> [coords |-> <<>>, available_start_min |-> 9 * MinPerHour])

\* assignment.get('inspector_id') of an assignment without one
NoInspectorId == ""

\* None is the empty list, an inspector a list of one
fetch_inspector_data(inspector_id) ==
    IF inspector_id \notin DOMAIN InspectorRows THEN <<>>
    ELSE IF InspectorRows[inspector_id].coords = <<>> THEN <<>>
    ELSE <<[id |-> inspector_id,
            home_coords |-> InspectorRows[inspector_id].coords[1],
            available_start_min |-> InspectorRows[inspector_id].available_start_min]>>

\* Table monday_items_selected, with the duration get_inspection_duration
\* finds for the row: 101 is scheduled 10:00-10:45 at A, 102 to 105 are not
\* scheduled, 103 has no coordinates, 104 fills more than a day.
MondayRows ==
    (101 :> [coords |-> <<PointA>>, task |-> Locked(PointA, 45, TimeStr(10, 0), TimeStr(10, 45))]) @@
    (102 :> [coords |-> <<PointB>>, task |-> Flexible(PointB, 53)]) @@
    (103 :> [coords |-> <<>>, task |-> Flexible(PointH, 30)]) @@
    (104 :> [coords |-> <<PointC>>, task |-> Flexible(PointC, 400)]) @@
    (105 :> [coords |-> <<PointA>>, task |-> Flexible(PointA, 10)])

\* the ids of the table, in the order the query returns its rows
MondayIds == <<101, 102, 103, 104, 105>>

\* the rows with an id of item_ids, but those without coordinates
fetch_monday_items(item_ids) ==
    LET found == SelectSeq(MondayIds, LAMBDA id : /\ id \in Range(item_ids)
                                                  /\ MondayRows[id].coords # <<>>)
    IN  [k \in 1..Len(found) |-> WithId(MondayRows[found[k]].task, found[k])]

\* the dispatch on existing_inspections and new_inspections
BuildRoute(inspector, existing_inspections, new_inspections, home_coords) ==
    IF existing_inspections # <<>> /\ new_inspections # <<>>
    THEN schedule_mixed_route(inspector, existing_inspections, new_inspections, home_coords)
    ELSE IF existing_inspections # <<>>
    THEN Built(build_existing_only_route(inspector, existing_inspections, home_coords))
    ELSE Built(schedule_new_only_route(inspector, new_inspections, home_coords))

Branch(existing_inspections, new_inspections) ==
    IF existing_inspections # <<>> /\ new_inspections # <<>> THEN "mixed"
    ELSE IF existing_inspections # <<>> THEN "existing_only"
    ELSE "new_only"

\* a variant: the last stop is left out
TravelMinutesButLast(route_stops) ==
    SumSeq([k \in 1..(Len(route_stops) - 1) |-> route_stops[k].travel_from_previous_mins])

\* sum(s.get('travel_from_previous_mins', 0) for s in route_stops)
TravelMinutes(route_stops) ==
    SumSeq([k \in 1..Len(route_stops) |-> route_stops[k].travel_from_previous_mins])

\* route_summary; None is the empty list, a time a list of one
RouteSummary(inspector_id, existing_inspections, new_inspections, route_stops, route_km) ==
    [inspector_id |-> inspector_id,
     total_inspections |-> Len(route_stops),
     existing_count |-> Len(existing_inspections),
     new_count |-> Len(new_inspections),
     total_km |-> RoundKm1(route_km),
     total_travel_minutes |-> TravelMinutes(route_stops),
     start_time |-> IF route_stops # <<>> THEN <<RouteStartTime(route_stops)>> ELSE <<>>,
     end_time |-> IF route_stops # <<>> THEN <<route_stops[Len(route_stops)].end_time>>
                  ELSE <<>>,
     stops |-> route_stops]

\* a variant: the status does not depend on the errors
ResultStatusSuccess(errors) == "success"

\* 'success' if not errors else 'partial'
ResultStatus(errors) == IF errors = <<>> THEN "success" ELSE "partial"

\* errors if errors else None; None is the empty list, a list of errors a
\* list of one
ResultErrors(errors) == IF errors = <<>> THEN <<>> ELSE <<errors>>

NoResult ==
    [status |-> "", routes |-> <<>>, errors |-> <<>>,
     metrics |-> [total_scheduled |-> 0, total_inspectors |-> 0,
                  total_travel_km |-> 0, total_travel_minutes |-> 0]]

\* An entry of batch.log, the history of the iterations of the loop: how the
\* iteration ended (a route, an error, a continue without either, an
\* exception raised), the error it appended (a list of one, or none), the
\* branch of the dispatch, the ids of new_inspections and the ids of the
\* remaining_new the mixed scheduler printed.
LogEntry(outcome, error, branch, new_ids, unplaced) ==
    [outcome |-> outcome, error |-> error, branch |-> branch,
     new_ids |-> new_ids, unplaced |-> unplaced]

IdsOf(inspections) == [k \in 1..Len(inspections) |-> inspections[k].id]

AssignmentOf(inspector_id, inspection_ids, existing_ids) ==
    [inspector_id |-> inspector_id, inspection_ids |-> inspection_ids,
     existing_ids |-> existing_ids]

\* The assignments of the batches: mixed with a task that fits no gap, mixed
\* with all placed, locked only, flexible only, and the malformed ones.
AssignmentChoices ==
    { AssignmentOf("w1", <<NumId(101), NumId(104), NumId(105)>>, <<NumId(101)>>),
      AssignmentOf("w1", <<NumId(101), NumId(105)>>, <<NumId(101)>>),
      AssignmentOf("w2", <<NumId(101)>>, <<NumId(101)>>),
      AssignmentOf("w1", <<NumId(102), NumId(105)>>, <<>>),
      AssignmentOf(NoInspectorId, <<NumId(102)>>, <<>>),
      AssignmentOf("w9", <<NumId(102)>>, <<>>),
      AssignmentOf("w3", <<NumId(102)>>, <<>>),
      AssignmentOf("w1", <<>>, <<>>),
      AssignmentOf("w1", <<NumId(102), TextId>>, <<>>),
      AssignmentOf("w1", <<NumId(101)>>, <<TextId>>),
      AssignmentOf("w1", <<NumId(103)>>, <<>>) }

\* the cache of a batch: empty, with rows, or with every query raising
BatchCaches ==
    {CacheWith(<<>>, {}), CacheWith(RouteHits, {}), CacheWith(<<>>, Points \X Points)}

Init ==
    /\ rnd = Idle /\ tsp = Idle /\ route = Idle
    /\ metric = Idle /\ insp = Idle
    /\ cache \in BatchCaches
    /\ \E assignments \in SeqsUpTo(AssignmentChoices, MaxAssignments) :
          batch = [pc |-> "loop", assignments |-> assignments, i |-> 1,
                   all_routes |-> <<>>, errors |-> <<>>,
                   total_km |-> 0, total_travel_minutes |-> 0, total_scheduled |-> 0,
                   log |-> <<>>, result |-> NoResult]

\* the assignment of the iteration
Assignment == batch.assignments[batch.i]

\* how far the iteration gets
InLoop == batch.pc = "loop" /\ batch.i <= Len(batch.assignments)
HasExistingIds == InLoop /\ ~Raises(Assignment.existing_ids)
HasInspectorId == HasExistingIds /\ Assignment.inspector_id # NoInspectorId
HasInspectionIds == HasInspectorId /\ Assignment.inspection_ids # <<>>
HasIntIds == HasInspectionIds /\ ~Raises(Assignment.inspection_ids)
HasInspector == HasIntIds /\ fetch_inspector_data(Assignment.inspector_id) # <<>>
HasInspections ==
    HasInspector /\ fetch_monday_items(IntList(Assignment.inspection_ids)) # <<>>

\* "continue", after errors.append(error) if there is an error
Continue(outcome, error) ==
    /\ batch' = [batch EXCEPT !.i = @ + 1,
                              !.errors = @ \o error,
                              !.log = Append(@, LogEntry(outcome, error, "none", <<>>, <<>>))]
    /\ UNCHANGED <<cache, rnd, tsp, route, metric, insp>>

\* "existing_ids = set(int(id) for id in ...)" raises ValueError: the
\* statement is in no try block, the exception leaves the function
ExistingIdsRaise ==
    /\ InLoop /\ Raises(Assignment.existing_ids)
    /\ batch' = [batch EXCEPT !.pc = "raised",
                              !.log = Append(@, LogEntry("raised", <<>>, "none", <<>>, <<>>))]
    /\ UNCHANGED <<cache, rnd, tsp, route, metric, insp>>

\* "if not inspector_id"
MissingInspectorId ==
    /\ HasExistingIds /\ Assignment.inspector_id = NoInspectorId
    /\ Continue("error", <<"Missing inspector_id in assignment">>)

\* "if not inspection_ids": a print and continue
NoInspectionIds ==
    /\ HasInspectorId /\ Assignment.inspection_ids = <<>>
    /\ Continue("continue", <<>>)

\* "except (ValueError, TypeError)"
InvalidInspectionIds ==
    /\ HasInspectionIds /\ Raises(Assignment.inspection_ids)
    /\ Continue("error", <<"Invalid inspection_ids format">>)

\* "if not inspector"
InspectorNotFound ==
    /\ HasIntIds /\ fetch_inspector_data(Assignment.inspector_id) = <<>>
    /\ Continue("error", <<"Inspector not found or missing coordinates">>)

\* "if not inspections"
NoValidInspections ==
    /\ HasInspector /\ fetch_monday_items(IntList(Assignment.inspection_ids)) = <<>>
    /\ Continue("error", <<"No valid inspections found">>)

\* the rest of the iteration: the route is built and appended to all_routes
AppendRoute(inspector, inspections, existing_ids) ==
    LET existing_inspections == SelectSeq(inspections, LAMBDA ins : ins.id \in existing_ids)
        new_inspections == SelectSeq(inspections, LAMBDA ins : ins.id \notin existing_ids)
    IN  \E built \in {BuildRoute(inspector, existing_inspections, new_inspections,
                                 inspector.home_coords)} :
            batch' = [batch EXCEPT
                !.i = @ + 1,
                !.total_km = @ + built.total_km,
                !.total_travel_minutes = @ + TravelMinutes(built.route_stops),
                !.total_scheduled = @ + Len(built.route_stops),
                !.all_routes = Append(@, RouteSummary(inspector.id, existing_inspections,
                                                      new_inspections, built.route_stops,
                                                      built.total_km)),
                !.log = Append(@, LogEntry("route", <<>>,
                                           Branch(existing_inspections, new_inspections),
                                           IdsOf(new_inspections),
                                           IdsOf(built.remaining_new)))]

RouteBuilt ==
    /\ HasInspections
    /\ \E inspector \in Range(fetch_inspector_data(Assignment.inspector_id)),
          inspections \in {fetch_monday_items(IntList(Assignment.inspection_ids))} :
            AppendRoute(inspector, inspections, Range(IntList(Assignment.existing_ids)))
    /\ UNCHANGED <<cache, rnd, tsp, route, metric, insp>>

\* after the loop: metrics and the result
Finish ==
    /\ batch.pc = "loop" /\ batch.i > Len(batch.assignments)
    /\ batch' = [batch EXCEPT
            !.pc = "done",
            !.result = [status |-> ResultStatus(batch.errors),
                        routes |-> batch.all_routes,
                        metrics |-> [total_scheduled |-> batch.total_scheduled,
                                     total_inspectors |-> Len(batch.all_routes),
                                     total_travel_km |-> RoundKm1(batch.total_km),
                                     total_travel_minutes |-> batch.total_travel_minutes],
                        errors |-> ResultErrors(batch.errors)]]
    /\ UNCHANGED <<cache, rnd, tsp, route, metric, insp>>

Next ==
    \/ ExistingIdsRaise
    \/ MissingInspectorId
    \/ NoInspectionIds
    \/ InvalidInspectionIds
    \/ InspectorNotFound
    \/ NoValidInspections
    \/ RouteBuilt
    \/ Finish

Spec == Init /\ [][Next]_vars

BatchReturned == batch.pc = "done"

\* C3: optimize never aborts; after every iteration the routes and the
\* errors together are as many as the assignments processed, and the result
\* is returned with all assignments processed, each with a Route or an error.
C3_RouteOrError ==
    /\ batch.pc # "raised"
    /\ Len(batch.all_routes) + Len(batch.errors) = batch.i - 1
    /\ BatchReturned =>
          /\ batch.i - 1 = Len(batch.assignments)
          /\ \A k \in 1..Len(batch.log) : batch.log[k].outcome \in {"route", "error"}

\* some identifier of the assignment is non-numeric
HasTextId(assignment) ==
    Raises(assignment.inspection_ids) \/ Raises(assignment.existing_ids)

\* C4: an assignment with a non-numeric identifier among its inspection ids
\* or its existing ids ends with one error and no Route, and the loop goes on
\* to the assignments after it.
C4_TextIdIsLocalError ==
    \A k \in 1..Len(batch.log) :
        HasTextId(batch.assignments[k]) =>
            /\ batch.log[k].outcome = "error"
            /\ Len(batch.log[k].error) = 1
            /\ batch.pc # "raised"

\* the errors the iterations appended, in order
RecordedErrors == ConcatAll([k \in 1..Len(batch.log) |-> batch.log[k].error])

\* C5: the status of the result is 'partial' when an error was recorded and
\* a Route was produced, 'success' only when no error was recorded; errors is
\* None exactly when the status is 'success', and otherwise the list of all
\* recorded errors.
C5_StatusAndErrors ==
    BatchReturned =>
        /\ (RecordedErrors # <<>> /\ batch.result.routes # <<>>) =>
              batch.result.status = "partial"
        /\ batch.result.status = "success" => RecordedErrors = <<>>
        /\ IsNone(batch.result.errors) <=> batch.result.status = "success"
        /\ batch.result.status # "success" => batch.result.errors = <<RecordedErrors>>

\* C5 witness: a result with a Route and an error
C5_Witness ==
    /\ BatchReturned
    /\ batch.result.routes # <<>>
    /\ RecordedErrors # <<>>
    /\ batch.result.status = "partial"

IdsOfStops(route_stops) == [k \in 1..Len(route_stops) |-> route_stops[k].monday_item_id]

\* the number of elements of s equal to x
Count(s, x) == Cardinality({k \in 1..Len(s) : s[k] = x})

\* the route of iteration k: as many routes as iterations that ended with one
RouteOf(k) ==
    batch.all_routes[Cardinality({j \in 1..k : batch.log[j].outcome = "route"})]

\* C6: after a mixed scheduling every flexible task is once in the Route or
\* once among the unplaced tasks printed, never both and never neither; the
\* iteration appends the Route and no error, and a batch of such iterations
\* has status 'success'.
C6_PlacedOrReported ==
    /\ \A k \in 1..Len(batch.log) :
          batch.log[k].branch = "mixed" =>
              /\ batch.log[k].outcome = "route"
              /\ batch.log[k].error = <<>>
              /\ \A id \in Range(batch.log[k].new_ids) :
                    Count(IdsOfStops(RouteOf(k).stops), id)
                        + Count(batch.log[k].unplaced, id) = 1
    /\ (BatchReturned /\ \A k \in 1..Len(batch.log) : batch.log[k].outcome = "route") =>
          /\ batch.result.status = "success"
          /\ IsNone(batch.result.errors)

\* C6 witness: a result of status 'success' with a mixed Route of a placed
\* flexible task, another flexible task being unplaced
C6_Witness ==
    /\ BatchReturned
    /\ batch.result.status = "success"
    /\ \E k \in 1..Len(batch.log) :
          /\ batch.log[k].branch = "mixed"
          /\ batch.log[k].unplaced # <<>>
          /\ \E id \in Range(batch.log[k].new_ids) :
                Count(IdsOfStops(RouteOf(k).stops), id) = 1

(***************************************************************************)
(* Calls of the travel metric, get_cached_travel_data, on two places and   *)
(* a cache that has, under the key of the two places, no row, a row, or a  *)
(* query that raises.                                                      *)
(***************************************************************************)
MetricPoints == Points \cup {PointN, PointK}

\* rows of the cache: 3.0 minutes without a distance, 6.4 minutes and 2.9 km,
\* 5.0 minutes and 0.5 km, a distance without minutes
MetricRows ==
    { Row(<<30>>, <<>>), Row(<<64>>, <<2900>>), Row(<<50>>, <<500>>), Row(<<>>, <<1500>>) }

MetricCaches(from, to) ==
    {CacheWith(<<>>, {}), CacheWith(<<>>, {<<from, to>>})}
    \cup {CacheWith(<<from, to>> :> row, {}) : row \in MetricRows}

InitMetric ==
    /\ rnd = Idle /\ tsp = Idle /\ route = Idle /\ batch = Idle /\ insp = Idle
    /\ \E from \in MetricPoints, to \in MetricPoints :
          /\ cache \in MetricCaches(from, to)
          /\ metric = [pc |-> "call", from |-> from, to |-> to, out |-> <<0, 0>>]

MetricCall ==
    /\ metric.pc = "call"
    /\ metric' = [metric EXCEPT
                    !.pc = "returned",
                    !.out = get_cached_travel_data(metric.from.lat, metric.from.lng,
                                                   metric.to.lat, metric.to.lng)]
    /\ UNCHANGED <<cache, rnd, tsp, route, batch, insp>>

NextMetric == MetricCall

SpecMetric == InitMetric /\ [][NextMetric]_vars

\* what the cache holds under the key of the call
MetricLookup ==
    CacheRows(make_cache_key(metric.from.lat, metric.from.lng, metric.to.lat, metric.to.lng))

\* the query raises
LookupFails == MetricLookup.error

\* the query returns no row, or a row without minutes
LookupMisses ==
    /\ ~MetricLookup.error
    /\ MetricLookup.data = <<>> \/ IsNone(MetricLookup.data[1].minutes)

\* C11: the travel metric of a place and itself is (0, 0) whatever the cache
\* holds; of two different places, on the estimate fallback (the query
\* raises or misses), the duration is at least 5 minutes.
C11_ZeroAndMinimum ==
    metric.pc = "returned" =>
        /\ metric.from = metric.to => metric.out = <<0, 0>>
        /\ (metric.from # metric.to /\ (LookupFails \/ LookupMisses)) =>
              metric.out[1] >= 5 * TenthsPerMin

\* C11 witness: the estimate of two places 11 m apart, the query having
\* raised
C11_Witness ==
    /\ metric.pc = "returned"
    /\ metric.from = PointH /\ metric.to = PointN
    /\ LookupFails
    /\ metric.out[1] = 5 * TenthsPerMin

\* the value of the travel metric on a cache miss: the estimate of the
\* duration and the great-circle distance x 1.3
MissValue(from, to) ==
    <<estimate_travel_minutes(from.lat, from.lng, to.lat, to.lng),
      RoadKm(from.lat, from.lng, to.lat, to.lng)>>

\* the query of the cache for two places raises, or misses
Fails(from, to) == CacheRows(KeyOf(<<from, to>>)).error
Misses(from, to) ==
    /\ ~CacheRows(KeyOf(<<from, to>>)).error
    /\ CacheRows(KeyOf(<<from, to>>)).data = <<>>

\* the error an assignment ends with, from the assignment and the two
\* tables alone: a list of one, or none
ErrorOf(assignment) ==
    IF assignment.inspector_id = NoInspectorId
    THEN <<"Missing inspector_id in assignment">>
    ELSE IF assignment.inspection_ids = <<>> THEN <<>>
    ELSE IF Raises(assignment.inspection_ids) THEN <<"Invalid inspection_ids format">>
    ELSE IF fetch_inspector_data(assignment.inspector_id) = <<>>
    THEN <<"Inspector not found or missing coordinates">>
    ELSE IF fetch_monday_items(IntList(assignment.inspection_ids)) = <<>>
    THEN <<"No valid inspections found">>
    ELSE <<>>

\* the coordinates of the stop before stop k of a route, home for the first
BeforeStop(home_coords, stops, k) ==
    IF k = 1 THEN home_coords ELSE MondayRows[stops[k - 1].monday_item_id].task.coords

AtStop(stops, k) == MondayRows[stops[k].monday_item_id].task.coords

\* C12: when the query of the cache raises, the travel metric returns what
\* it returns on a miss; the legs of the routes of a batch whose every query
\* raises carry the distances of a miss; the errors of the batch are those of
\* the assignments alone, and so is its status.
C12_FailureIsMiss ==
    /\ \A from \in Points, to \in Points :
          (from # to /\ (Fails(from, to) \/ Misses(from, to))) =>
              get_cached_travel_data(from.lat, from.lng, to.lat, to.lng)
                  = MissValue(from, to)
    /\ \A r \in 1..Len(batch.all_routes) :
          \A k \in 1..Len(batch.all_routes[r].stops) :
              LET stops == batch.all_routes[r].stops
                  from == BeforeStop(PointH, stops, k)
                  to == AtStop(stops, k)
              IN  (from # to /\ Fails(from, to)) =>
                      stops[k].distance_from_previous_km = RoundKm1(MissValue(from, to)[2])
    /\ \A k \in 1..Len(batch.log) :
          batch.log[k].outcome # "raised" => batch.log[k].error = ErrorOf(batch.assignments[k])
    /\ BatchReturned =>
          (batch.result.status = "success"
              <=> \A k \in 1..Len(batch.assignments) : ErrorOf(batch.assignments[k]) = <<>>)

\* C12 witness: a result of status 'success' with a route of two stops or
\* more, every query of the cache having raised
C12_Witness ==
    /\ BatchReturned
    /\ batch.result.status = "success"
    /\ \A from \in Points, to \in Points : Fails(from, to)
    /\ \E r \in 1..Len(batch.result.routes) :
          /\ Len(batch.result.routes[r].stops) >= 2
          /\ batch.result.routes[r].stops[2].travel_from_previous_mins > 0

\* the home of the worker of a route
HomeOf(r) == fetch_inspector_data(r.inspector_id)[1].home_coords

\* the distance of a route: the legs from home through its stops, in order,
\* and the leg from the last stop back to home
RouteLegsKm(r) ==
    SumSeq([k \in 1..Len(r.stops) |->
              DistKm(BeforeStop(HomeOf(r), r.stops, k), AtStop(r.stops, k))])
    + (IF r.stops = <<>> THEN 0 ELSE DistKm(AtStop(r.stops, Len(r.stops)), HomeOf(r)))

\* C13: in a result, total_scheduled is the number of stops of the routes,
\* total_inspectors the number of routes, total_travel_minutes the sum of the
\* routes' total_travel_minutes, each of which is the sum of the stops'
\* travel_from_previous_mins; the distance of a route is the sum of its legs
\* and the leg back home, the total distance the sum over the routes; the
\* routes are those of the iterations that ended with one.
C13_TotalsAreSums ==
    BatchReturned =>
        LET routes == batch.result.routes
            metrics == batch.result.metrics
        IN  /\ metrics.total_scheduled = SumSeq([r \in 1..Len(routes) |-> Len(routes[r].stops)])
            /\ metrics.total_inspectors = Len(routes)
            /\ metrics.total_travel_minutes
                  = SumSeq([r \in 1..Len(routes) |-> routes[r].total_travel_minutes])
            /\ \A r \in 1..Len(routes) :
                  /\ routes[r].total_inspections = Len(routes[r].stops)
                  /\ routes[r].total_travel_minutes
                        = SumSeq([k \in 1..Len(routes[r].stops) |->
                                    routes[r].stops[k].travel_from_previous_mins])
                  /\ routes[r].total_km = RoundKm1(RouteLegsKm(routes[r]))
            /\ batch.total_km = SumSeq([r \in 1..Len(routes) |-> RouteLegsKm(routes[r])])
            /\ metrics.total_travel_km = RoundKm1(batch.total_km)
            /\ Len(routes) = Cardinality({k \in 1..Len(batch.log) :
                                             batch.log[k].outcome = "route"})

\* C13 witness: a result of two routes and an error, with travel between stops
C13_Witness ==
    /\ BatchReturned
    /\ Len(batch.result.routes) = 2
    /\ RecordedErrors # <<>>
    /\ \A r \in 1..2 : batch.result.routes[r].total_travel_minutes > 0

(***************************************************************************)
(* fetch_inspector_data: available_start_min from the availability row of  *)
(* the day and the shifts of the capacity view.  A time text of the        *)
(* database is [parses, time]: whether strptime(text, '%H:%M:%S') accepts  *)
(* it, and the time it reads.  None is the empty list, a text a list of    *)
(* one.                                                                    *)
(***************************************************************************)
MaxShifts == 2

TimeText(hh, mm) == [parses |-> TRUE, time |-> TimeStr(hh, mm)]
BadTimeText == [parses |-> FALSE, time |-> NoTimeStr]

\* start_time: '09:00:00' unless the first availability row has a
\* start_time_local
StartTimeOf(avail_rows) ==
    IF Len(avail_rows) > 0 /\ ~IsNone(avail_rows[1].start_time_local)
    THEN avail_rows[1].start_time_local[1]
    ELSE TimeText(9, 0)

\* latest_shift_end_min after the shifts from k on: the maximum of the end
\* times that strptime accepts
RECURSIVE LatestShiftEnd(_, _, _)
LatestShiftEnd(existing_shifts, k, latest_shift_end_min) ==
    IF k > Len(existing_shifts) THEN latest_shift_end_min
    ELSE Only({LatestShiftEnd(existing_shifts, k + 1, next) :
               next \in {IF /\ ~IsNone(existing_shifts[k].end_time)
                            /\ existing_shifts[k].end_time[1].parses
                         THEN Max(latest_shift_end_min,
                                  time_str_to_minutes(existing_shifts[k].end_time[1].time))
                         ELSE latest_shift_end_min}})

\* the available_start_min of the inspector returned
AvailableStartMin(avail_rows, existing_shifts) ==
    LET start_time == StartTimeOf(avail_rows)
        latest_shift_end_min == LatestShiftEnd(existing_shifts, 1, 0)
        parsed == IF start_time.parses THEN time_str_to_minutes(start_time.time)
                  ELSE 9 * MinPerHour
        start_min == IF latest_shift_end_min > parsed
                     THEN latest_shift_end_min + 15
                     ELSE parsed
    IN  Max(9 * MinPerHour, start_min)

\* the availability rows of the day: none, one without a start time, one
\* with a start time that parses or not
AvailRowChoices ==
    { <<>>, <<[start_time_local |-> <<>>]>>, <<[start_time_local |-> <<BadTimeText>>]>> }
    \cup {<<[start_time_local |-> <<TimeText(hh, 0)>>]>> : hh \in {8, 9, 10}}

\* the shifts of the day: without an end time, or ending at a time that
\* parses or not
ShiftChoices ==
    { [end_time |-> <<>>], [end_time |-> <<BadTimeText>>],
      [end_time |-> <<TimeText(8, 50)>>], [end_time |-> <<TimeText(9, 50)>>],
      [end_time |-> <<TimeText(10, 0)>>], [end_time |-> <<TimeText(12, 30)>>] }

InitAvail ==
    /\ rnd = Idle /\ tsp = Idle /\ route = Idle /\ batch = Idle /\ metric = Idle
    /\ cache = <<>>
    /\ \E avail_rows \in AvailRowChoices, existing_shifts \in SeqsUpTo(ShiftChoices, MaxShifts) :
          insp = [pc |-> "fetch", avail_rows |-> avail_rows,
                  existing_shifts |-> existing_shifts, available_start_min |-> 0]

InspectorFetched ==
    /\ insp.pc = "fetch"
    /\ insp' = [insp EXCEPT
                  !.pc = "returned",
                  !.available_start_min = AvailableStartMin(insp.avail_rows,
                                                            insp.existing_shifts)]
    /\ UNCHANGED <<cache, rnd, tsp, route, batch, metric>>

NextAvail == InspectorFetched

SpecAvail == InitAvail /\ [][NextAvail]_vars

\* the end times, in minutes, of the shifts that have one
ShiftEnds ==
    {time_str_to_minutes(insp.existing_shifts[k].end_time[1].time) :
        k \in {j \in 1..Len(insp.existing_shifts) :
                  /\ ~IsNone(insp.existing_shifts[j].end_time)
                  /\ insp.existing_shifts[j].end_time[1].parses}}

\* C14: the earliest-available time of a worker is never earlier than 09:00
\* and never earlier than 15 minutes after the end of any existing shift.
C14_EarliestAvailable ==
    insp.pc = "returned" =>
        /\ insp.available_start_min >= 9 * 60
        /\ \A shift_end \in ShiftEnds : insp.available_start_min >= shift_end + 15

\* the query returns a row with minutes
LookupHits == ~LookupFails /\ ~LookupMisses

\* C20: for two different places whose key is in the cache with a duration,
\* the travel metric returns the cached duration, whatever its value, and
\* the cached distance when there is one, the great-circle distance x 1.3
\* otherwise.
C20_HitReturnsCached ==
    (metric.pc = "returned" /\ metric.from # metric.to /\ LookupHits) =>
        /\ metric.out[1] = MetricLookup.data[1].minutes[1]
        /\ metric.out[2] =
              IF IsNone(MetricLookup.data[1].distance_km)
              THEN (haversine_km(metric.from.lat, metric.from.lng,
                                 metric.to.lat, metric.to.lng) * 13) \div 10
              ELSE MetricLookup.data[1].distance_km[1]

====
